---- MODULE Spec2Model ----
(***************************************************************************)
(* Model of the regularization sweeps of Bias-Variance-Trade-Off.ipynb:    *)
(* test_regularization_l2 (Ridge) and test_regularization_l1 (Lasso).      *)
(* One call of one of the two functions is followed statement by           *)
(* statement.  The scikit-learn solver is external: it is a deterministic  *)
(* stub, a function from the penalty to the fitted coefficient, that at    *)
(* one penalty may fail to converge (with a warning, as Lasso does, or     *)
(* with an exception).  The exception of a non-converged fit is the        *)
(* library's ConvergenceWarning turned into an error.                      *)
(*                                                                         *)
(* Real numbers are exact rationals [num, den]; NaN is [0, 0].  Python's   *)
(* 0-based list positions are 1-based here (min_idx is Python's + 1).      *)
(***************************************************************************)
EXTENDS Integers, Sequences, FiniteSets, TLC

\* ------------------------------------------------------------------ bounds
MaxGrid == 3        \* longest penalty grid
MaxPenalty == 2     \* penalties are 1..MaxPenalty
MaxCoef == 1        \* the stub solver's coefficients are 0..MaxCoef

Penalties == 1..MaxPenalty
Coefs == 0..MaxCoef
Kinds == {"l2", "l1"}

\* ------------------------------------------------------------- the data
\* D = 1 feature; three training rows, two test rows.
x_train == << <<1>>, <<0>>, <<2>> >>
y_train == <<2, 0, 3>>
x_test == << <<1>>, <<2>> >>
y_test == <<3, 4>>

\* the four data arguments of a call, as the notebook passes them
TheData == [x_train |-> x_train, y_train |-> y_train, x_test |-> x_test, y_test |-> y_test]
\* the same with one training label missing, with one test label too many,
\* and with test rows of two features
Datasets ==
    {TheData,
     [TheData EXCEPT !.y_train = <<2, 0>>],
     [TheData EXCEPT !.y_test = <<3, 4, 5>>],
     [TheData EXCEPT !.x_test = << <<1, 0>>, <<2, 1>> >>]}

\* ------------------------------------------------------------- numbers
Rat(n, d) == [num |-> n, den |-> d]
NaN == Rat(0, 0)
IsNaN(a) == a.den = 0
\* a <= b on reals; false when either is NaN, as IEEE comparison is
Leq(a, b) == ~IsNaN(a) /\ ~IsNaN(b) /\ a.num * b.den <= b.num * a.den
Less(a, b) == ~IsNaN(a) /\ ~IsNaN(b) /\ a.num * b.den < b.num * a.den
\* a = b on reals; NaN equals nothing
Same(a, b) == ~IsNaN(a) /\ ~IsNaN(b) /\ a.num * b.den = b.num * a.den
\* a is the non-negative square root of b
IsSqrtOf(a, b) ==
    /\ ~IsNaN(a) /\ ~IsNaN(b)
    /\ a.num >= 0
    /\ a.num * a.num * b.den = b.num * a.den * a.den

\* values of locals that are not bound yet
NoModel == [coef |-> <<>>, intercept |-> 0]
NoIdx == 0
NoPenalty == 0
NoValue == Rat(0 - 1, 1)

\* ------------------------------------------------------------- the solver
RECURSIVE Dot(_, _)
Dot(u, v) == IF u = <<>> THEN 0 ELSE Head(u) * Head(v) + Dot(Tail(u), Tail(v))

\* lin_mod.predict(X): one prediction per row
predict(m, X) == [r \in 1..Len(X) |-> m.intercept + Dot(m.coef, X[r])]

RECURSIVE SumSq(_, _)
SumSq(y, yhat) ==
    IF y = <<>> THEN 0
    ELSE (Head(y) - Head(yhat)) * (Head(y) - Head(yhat)) + SumSq(Tail(y), Tail(yhat))

\* sklm.mean_squared_error(y_true, y_pred): sum((y_true - y_pred)^2) / n
mean_squared_error(y_true, y_pred) == Rat(SumSq(y_true, y_pred), Len(y_true))

\* fit without its validation of the labels
check_X_y_lax(X, y) == TRUE

\* scikit-learn's input validation, each failing with ValueError:
\* fit(X, y) wants one label per row
check_X_y(X, y) == Len(X) = Len(y)
\* predict(X) wants rows of as many features as the model has coefficients
check_n_features(m, X) == \A r \in 1..Len(X) : Len(X[r]) = Len(m.coef)
\* mean_squared_error(y_true, y_pred) wants two arrays of one length
check_consistent_length(y_true, y_pred) == Len(y_true) = Len(y_pred)

\* ------------------------------------------------------------- np.argmin
\* the first position holding NaN if there is one, else the first position
\* of the minimum; NoIdx for the empty list (where numpy raises ValueError)
FirstNaN(s) == CHOOSE i \in 1..Len(s) : IsNaN(s[i]) /\ \A j \in 1..(i - 1) : ~IsNaN(s[j])
FirstMin(s) ==
    CHOOSE i \in 1..Len(s) :
        /\ \A j \in 1..Len(s) : Leq(s[i], s[j])
        /\ \A j \in 1..(i - 1) : ~Same(s[j], s[i])
\* variants of np.argmin with a plausible slip: the position of the maximum,
\* the last position of the minimum, and position 1 whatever the values
argmax(s) ==
    IF s = <<>> THEN NoIdx
    ELSE CHOOSE i \in 1..Len(s) :
        /\ \A j \in 1..Len(s) : Leq(s[j], s[i])
        /\ \A j \in 1..(i - 1) : ~Same(s[j], s[i])
argmin_last(s) ==
    IF s = <<>> THEN NoIdx
    ELSE CHOOSE i \in 1..Len(s) :
        /\ \A j \in 1..Len(s) : Leq(s[i], s[j])
        /\ \A j \in (i + 1)..Len(s) : ~Same(s[j], s[i])
argmin_first(s) == IF s = <<>> THEN NoIdx ELSE 1

argmin(s) ==
    IF s = <<>> THEN NoIdx
    ELSE IF \E i \in 1..Len(s) : IsNaN(s[i]) THEN FirstNaN(s)
    ELSE FirstMin(s)

\* ------------------------------------------------------------------ state
VARIABLES
    kind,        \* which function is called: "l2" or "l1"
    grid,        \* the parameter l2 / l1: the penalty grid
    args,        \* the parameters x_train, y_train, x_test, y_test
    solver,      \* the stub: penalty -> fitted coefficient
    bad,         \* the penalty at which the solver does not converge (0: none)
    failMode,    \* how the solver reports it: "warn" or "raise"
    pc,          \* position in the function
    k,           \* grid points whose iteration has started
    reg,         \* the loop variable
    lin_mod,     \* the local lin_mod
    train_RMSE, test_RMSE, coefs,
    min_idx, min_l, min_RMSE,
    fits,        \* the penalties fit() was called with, in call order
    shown,       \* figures rendered by plt.show()
    warned,      \* ConvergenceWarnings the solver has issued
    outcome,     \* "none", "returned" or "raised"
    error,       \* the exception raised, "none" if none
    out,         \* the returned tuple, <<>> if none
    module_lin_mod,  \* the module-level lin_mod of the notebook
    again        \* whether a sweep has been called before this call

vars == <<kind, grid, args, solver, bad, failMode, pc, k, reg, lin_mod, train_RMSE, test_RMSE,
          coefs, min_idx, min_l, min_RMSE, fits, shown, warned, outcome, error, out,
          module_lin_mod, again>>

inputs == <<kind, grid, args, solver, bad, failMode>>
locals == <<k, reg, lin_mod, train_RMSE, test_RMSE, coefs, min_idx, min_l, min_RMSE>>
\* what outlives a call
session == <<module_lin_mod, again>>

\* lin_mod = linear_model.LinearRegression(); lin_mod.fit(x_train, y_train) on
\* the stub: the unpenalised fit, whose coefficient no penalised fit reaches
LinearRegression == [coef |-> <<MaxCoef + 1>>, intercept |-> 0]

Grids == UNION {[1..n -> Penalties] : n \in 0..MaxGrid}

\* the state before a call whose data arguments are drawn from data
Start(data) ==
    /\ kind \in Kinds
    /\ grid \in Grids
    /\ args \in data
    /\ solver \in [Penalties -> Coefs]
    /\ bad \in 0..MaxPenalty
    /\ failMode \in {"warn", "raise"}
    /\ (bad = 0 => failMode = "warn")
    /\ pc = "idle"
    /\ k = 0
    /\ reg = NoPenalty
    /\ lin_mod = NoModel
    /\ train_RMSE = <<>> /\ test_RMSE = <<>> /\ coefs = <<>>
    /\ min_idx = NoIdx /\ min_l = NoPenalty /\ min_RMSE = NoValue
    /\ fits = <<>>
    /\ shown = 0
    /\ warned = 0
    /\ outcome = "none"
    /\ error = "none"
    /\ out = <<>>
    /\ module_lin_mod = LinearRegression
    /\ again = FALSE

\* the notebook's calls: the data arguments are the notebook's arrays
Init == Start({TheData})

\* calls whose data arguments may be malformed
InitShapes == Start(Datasets)

\* linear_model.Ridge(alpha).fit / linear_model.Lasso(alpha).fit on the stub
Fitted(p) == [coef |-> <<solver[p]>>, intercept |-> 0]

\* plot_regularization with its second figure forgotten
plot_regularization_once(n) == n + 1

\* plot_regularization renders two figures, each with plt.show()
plot_regularization(n) == n + 2

\* ------------------------------------------------------------------------
\* test_regularization_l2(x_train, y_train, x_test, y_test, l2)
\* ------------------------------------------------------------------------
\* entry without the three assignments: the names keep the lists they held
l2_Enter_KeepsLists ==
    /\ kind = "l2" /\ pc = "idle"
    /\ pc' = "loop"
    /\ UNCHANGED <<session, inputs, warned, locals, fits, shown, outcome, error, out>>

\* entry: the three result lists are created empty
l2_Enter_body ==
    /\ pc = "idle"
    /\ train_RMSE' = <<>> /\ test_RMSE' = <<>> /\ coefs' = <<>>
    /\ pc' = "loop"
    /\ UNCHANGED <<session, inputs, warned, k, reg, lin_mod, min_idx, min_l, min_RMSE, fits, shown,
                   outcome, error, out>>

\* the step, taken by a call of test_regularization_l2
l2_Enter == kind = "l2" /\ l2_Enter_body

\* for reg in l2: lin_mod = linear_model.Ridge(alpha = reg); lin_mod.fit(...)
\* An exception of fit is not caught: it ends the call.
l2_Fit_body ==
    /\ pc = "loop" /\ k < Len(grid)
    /\ k' = k + 1
    /\ reg' = grid[k + 1]
    /\ fits' = Append(fits, grid[k + 1])
    /\ IF ~check_X_y(args.x_train, args.y_train)
       THEN /\ pc' = "done" /\ outcome' = "raised" /\ error' = "ValueError"
            /\ UNCHANGED <<lin_mod, warned>>
       ELSE IF grid[k + 1] = bad /\ failMode = "raise"
       THEN /\ pc' = "done" /\ outcome' = "raised" /\ error' = "ConvergenceWarning"
            /\ UNCHANGED <<lin_mod, warned>>
       ELSE /\ lin_mod' = Fitted(grid[k + 1])
            /\ pc' = "coefs"
            /\ warned' = IF grid[k + 1] = bad THEN warned + 1 ELSE warned
            /\ UNCHANGED <<outcome, error>>
    /\ UNCHANGED <<session, inputs, train_RMSE, test_RMSE, coefs, min_idx, min_l, min_RMSE,
                   shown, out>>

\* the step, taken by a call of test_regularization_l2
l2_Fit == kind = "l2" /\ l2_Fit_body

\* coefs.append(lin_mod.coef_)
l2_Coefs_body ==
    /\ pc = "coefs"
    /\ coefs' = Append(coefs, lin_mod.coef)
    /\ pc' = "train"
    /\ UNCHANGED <<session, inputs, warned, k, reg, lin_mod, train_RMSE, test_RMSE, min_idx, min_l,
                   min_RMSE, fits, shown, outcome, error, out>>

\* the step, taken by a call of test_regularization_l2
l2_Coefs == kind = "l2" /\ l2_Coefs_body

\* l2_Train with the training error appended to the wrong list
l2_Train_IntoTestList ==
    /\ kind = "l2" /\ pc = "train"
    /\ IF /\ check_n_features(lin_mod, args.x_train)
          /\ check_consistent_length(args.y_train, predict(lin_mod, args.x_train))
       THEN /\ test_RMSE' = Append(test_RMSE, mean_squared_error(args.y_train, predict(lin_mod, args.x_train)))
            /\ pc' = "test"
            /\ UNCHANGED <<outcome, error>>
       ELSE /\ pc' = "done" /\ outcome' = "raised" /\ error' = "ValueError"
            /\ UNCHANGED test_RMSE
    /\ UNCHANGED <<session, inputs, warned, k, reg, lin_mod, train_RMSE, coefs, min_idx, min_l, min_RMSE,
                   fits, shown, out>>

\* y_score_train = lin_mod.predict(x_train); train_RMSE.append(mean_squared_error(...))
l2_Train_body ==
    /\ pc = "train"
    /\ IF /\ check_n_features(lin_mod, args.x_train)
          /\ check_consistent_length(args.y_train, predict(lin_mod, args.x_train))
       THEN /\ train_RMSE' = Append(train_RMSE, mean_squared_error(args.y_train, predict(lin_mod, args.x_train)))
            /\ pc' = "test"
            /\ UNCHANGED <<outcome, error>>
       ELSE /\ pc' = "done" /\ outcome' = "raised" /\ error' = "ValueError"
            /\ UNCHANGED train_RMSE
    /\ UNCHANGED <<session, inputs, warned, k, reg, lin_mod, test_RMSE, coefs, min_idx, min_l, min_RMSE,
                   fits, shown, out>>

\* the step, taken by a call of test_regularization_l2
l2_Train == kind = "l2" /\ l2_Train_body

\* l2_Test scoring the training set a second time
l2_Test_OnTrainingSet ==
    /\ kind = "l2" /\ pc = "test"
    /\ IF /\ check_n_features(lin_mod, args.x_train)
          /\ check_consistent_length(args.y_train, predict(lin_mod, args.x_train))
       THEN /\ test_RMSE' = Append(test_RMSE, mean_squared_error(args.y_train, predict(lin_mod, args.x_train)))
            /\ pc' = "loop"
            /\ UNCHANGED <<outcome, error>>
       ELSE /\ pc' = "done" /\ outcome' = "raised" /\ error' = "ValueError"
            /\ UNCHANGED test_RMSE
    /\ UNCHANGED <<session, inputs, warned, k, reg, lin_mod, train_RMSE, coefs, min_idx, min_l, min_RMSE,
                   fits, shown, out>>

\* y_score = lin_mod.predict(x_test); test_RMSE.append(mean_squared_error(...))
l2_Test_body ==
    /\ pc = "test"
    /\ IF /\ check_n_features(lin_mod, args.x_test)
          /\ check_consistent_length(args.y_test, predict(lin_mod, args.x_test))
       THEN /\ test_RMSE' = Append(test_RMSE, mean_squared_error(args.y_test, predict(lin_mod, args.x_test)))
            /\ pc' = "loop"
            /\ UNCHANGED <<outcome, error>>
       ELSE /\ pc' = "done" /\ outcome' = "raised" /\ error' = "ValueError"
            /\ UNCHANGED test_RMSE
    /\ UNCHANGED <<session, inputs, warned, k, reg, lin_mod, train_RMSE, coefs, min_idx, min_l, min_RMSE,
                   fits, shown, out>>

\* the step, taken by a call of test_regularization_l2
l2_Test == kind = "l2" /\ l2_Test_body

\* l2_Select returning the position of the minimum in place of the penalty
l2_Select_ReturnsIndex ==
    /\ kind = "l2" /\ pc = "loop" /\ k = Len(grid)
    /\ IF test_RMSE = <<>>
       THEN /\ pc' = "done" /\ outcome' = "raised" /\ error' = "ValueError"
            /\ UNCHANGED <<min_idx, min_l, min_RMSE>>
       ELSE /\ min_idx' = argmin(test_RMSE)
            /\ min_l' = argmin(test_RMSE)
            /\ min_RMSE' = test_RMSE[argmin(test_RMSE)]
            /\ pc' = "plot"
            /\ UNCHANGED <<outcome, error>>
    /\ UNCHANGED <<session, inputs, warned, k, reg, lin_mod, train_RMSE, test_RMSE, coefs, fits, shown, out>>

\* l2_Select with a minimum search that answers "no position" on the empty
\* list instead of raising
l2_Select_EmptyPasses ==
    /\ kind = "l2" /\ pc = "loop" /\ k = Len(grid)
    /\ min_idx' = argmin(test_RMSE)
    /\ min_l' = IF test_RMSE = <<>> THEN NoPenalty ELSE grid[argmin(test_RMSE)]
    /\ min_RMSE' = IF test_RMSE = <<>> THEN NoValue ELSE test_RMSE[argmin(test_RMSE)]
    /\ pc' = "plot"
    /\ UNCHANGED <<session, inputs, warned, k, reg, lin_mod, train_RMSE, test_RMSE, coefs, fits, shown,
                   outcome, error, out>>

\* min_idx = np.argmin(test_RMSE); min_l2 = l2[min_idx]; min_RMSE = test_RMSE[min_idx]
\* np.argmin raises ValueError on the empty list.
l2_Select_body ==
    /\ pc = "loop" /\ k = Len(grid)
    /\ IF test_RMSE = <<>>
       THEN /\ pc' = "done" /\ outcome' = "raised" /\ error' = "ValueError"
            /\ UNCHANGED <<min_idx, min_l, min_RMSE>>
       ELSE /\ min_idx' = argmin(test_RMSE)
            /\ min_l' = grid[argmin(test_RMSE)]
            /\ min_RMSE' = test_RMSE[argmin(test_RMSE)]
            /\ pc' = "plot"
            /\ UNCHANGED <<outcome, error>>
    /\ UNCHANGED <<session, inputs, warned, k, reg, lin_mod, train_RMSE, test_RMSE, coefs, fits, shown, out>>

\* the step, taken by a call of test_regularization_l2
l2_Select == kind = "l2" /\ l2_Select_body

\* plot_regularization(l2, train_RMSE, test_RMSE, coefs, min_l2, title)
l2_Plot_body ==
    /\ pc = "plot"
    /\ shown' = plot_regularization(shown)
    /\ pc' = "return"
    /\ UNCHANGED <<session, inputs, warned, locals, fits, outcome, error, out>>

\* the step, taken by a call of test_regularization_l2
l2_Plot == kind = "l2" /\ l2_Plot_body

\* return min_l2, min_RMSE
l2_Return_body ==
    /\ pc = "return"
    /\ out' = <<min_l, min_RMSE>>
    /\ outcome' = "returned"
    /\ pc' = "done"
    /\ UNCHANGED <<session, inputs, warned, locals, fits, shown, error>>

\* the step, taken by a call of test_regularization_l2
l2_Return == kind = "l2" /\ l2_Return_body

\* ------------------------------------------------------------------------
\* test_regularization_l1(x_train, y_train, x_test, y_test, l1)
\* ------------------------------------------------------------------------
\* entry: the three result lists are created empty
l1_Enter_body ==
    /\ pc = "idle"
    /\ train_RMSE' = <<>> /\ test_RMSE' = <<>> /\ coefs' = <<>>
    /\ pc' = "loop"
    /\ UNCHANGED <<session, inputs, warned, k, reg, lin_mod, min_idx, min_l, min_RMSE, fits, shown,
                   outcome, error, out>>

\* the step, taken by a call of test_regularization_l1
l1_Enter == kind = "l1" /\ l1_Enter_body

\* for reg in l1: lin_mod = linear_model.Lasso(alpha = reg); lin_mod.fit(...)
\* An exception of fit is not caught: it ends the call.
l1_Fit_body ==
    /\ pc = "loop" /\ k < Len(grid)
    /\ k' = k + 1
    /\ reg' = grid[k + 1]
    /\ fits' = Append(fits, grid[k + 1])
    /\ IF ~check_X_y(args.x_train, args.y_train)
       THEN /\ pc' = "done" /\ outcome' = "raised" /\ error' = "ValueError"
            /\ UNCHANGED <<lin_mod, warned>>
       ELSE IF grid[k + 1] = bad /\ failMode = "raise"
       THEN /\ pc' = "done" /\ outcome' = "raised" /\ error' = "ConvergenceWarning"
            /\ UNCHANGED <<lin_mod, warned>>
       ELSE /\ lin_mod' = Fitted(grid[k + 1])
            /\ pc' = "coefs"
            /\ warned' = IF grid[k + 1] = bad THEN warned + 1 ELSE warned
            /\ UNCHANGED <<outcome, error>>
    /\ UNCHANGED <<session, inputs, train_RMSE, test_RMSE, coefs, min_idx, min_l, min_RMSE,
                   shown, out>>

\* the step, taken by a call of test_regularization_l1
l1_Fit == kind = "l1" /\ l1_Fit_body

\* coefs.append(lin_mod.coef_)
l1_Coefs_body ==
    /\ pc = "coefs"
    /\ coefs' = Append(coefs, lin_mod.coef)
    /\ pc' = "train"
    /\ UNCHANGED <<session, inputs, warned, k, reg, lin_mod, train_RMSE, test_RMSE, min_idx, min_l,
                   min_RMSE, fits, shown, outcome, error, out>>

\* the step, taken by a call of test_regularization_l1
l1_Coefs == kind = "l1" /\ l1_Coefs_body

\* y_score_train = lin_mod.predict(x_train); train_RMSE.append(mean_squared_error(...))
l1_Train_body ==
    /\ pc = "train"
    /\ IF /\ check_n_features(lin_mod, args.x_train)
          /\ check_consistent_length(args.y_train, predict(lin_mod, args.x_train))
       THEN /\ train_RMSE' = Append(train_RMSE, mean_squared_error(args.y_train, predict(lin_mod, args.x_train)))
            /\ pc' = "test"
            /\ UNCHANGED <<outcome, error>>
       ELSE /\ pc' = "done" /\ outcome' = "raised" /\ error' = "ValueError"
            /\ UNCHANGED train_RMSE
    /\ UNCHANGED <<session, inputs, warned, k, reg, lin_mod, test_RMSE, coefs, min_idx, min_l, min_RMSE,
                   fits, shown, out>>

\* the step, taken by a call of test_regularization_l1
l1_Train == kind = "l1" /\ l1_Train_body

\* the l1 test step scoring the training set instead of the test set
l1_Test_OnTrainingSet ==
    /\ pc = "test"
    /\ test_RMSE' = Append(test_RMSE, mean_squared_error(args.y_train, predict(lin_mod, args.x_train)))
    /\ pc' = "loop"
    /\ UNCHANGED <<session, inputs, warned, k, reg, lin_mod, train_RMSE, coefs, min_idx, min_l, min_RMSE,
                   fits, shown, outcome, error, out>>

\* y_score = lin_mod.predict(x_test); test_RMSE.append(mean_squared_error(...))
l1_Test_body ==
    /\ pc = "test"
    /\ IF /\ check_n_features(lin_mod, args.x_test)
          /\ check_consistent_length(args.y_test, predict(lin_mod, args.x_test))
       THEN /\ test_RMSE' = Append(test_RMSE, mean_squared_error(args.y_test, predict(lin_mod, args.x_test)))
            /\ pc' = "loop"
            /\ UNCHANGED <<outcome, error>>
       ELSE /\ pc' = "done" /\ outcome' = "raised" /\ error' = "ValueError"
            /\ UNCHANGED test_RMSE
    /\ UNCHANGED <<session, inputs, warned, k, reg, lin_mod, train_RMSE, coefs, min_idx, min_l, min_RMSE,
                   fits, shown, out>>

\* the step, taken by a call of test_regularization_l1
l1_Test == kind = "l1" /\ l1_Test_body

\* min_idx = np.argmin(test_RMSE); min_l1 = l1[min_idx]; min_RMSE = test_RMSE[min_idx]
\* np.argmin raises ValueError on the empty list.
l1_Select_body ==
    /\ pc = "loop" /\ k = Len(grid)
    /\ IF test_RMSE = <<>>
       THEN /\ pc' = "done" /\ outcome' = "raised" /\ error' = "ValueError"
            /\ UNCHANGED <<min_idx, min_l, min_RMSE>>
       ELSE /\ min_idx' = argmin(test_RMSE)
            /\ min_l' = grid[argmin(test_RMSE)]
            /\ min_RMSE' = test_RMSE[argmin(test_RMSE)]
            /\ pc' = "plot"
            /\ UNCHANGED <<outcome, error>>
    /\ UNCHANGED <<session, inputs, warned, k, reg, lin_mod, train_RMSE, test_RMSE, coefs, fits, shown, out>>

\* the step, taken by a call of test_regularization_l1
l1_Select == kind = "l1" /\ l1_Select_body

\* plot_regularization(l1, train_RMSE, test_RMSE, coefs, min_l1, title)
l1_Plot_body ==
    /\ pc = "plot"
    /\ shown' = plot_regularization(shown)
    /\ pc' = "return"
    /\ UNCHANGED <<session, inputs, warned, locals, fits, outcome, error, out>>

\* the step, taken by a call of test_regularization_l1
l1_Plot == kind = "l1" /\ l1_Plot_body

\* return min_l1, min_RMSE
l1_Return_body ==
    /\ pc = "return"
    /\ out' = <<min_l, min_RMSE>>
    /\ outcome' = "returned"
    /\ pc' = "done"
    /\ UNCHANGED <<session, inputs, warned, locals, fits, shown, error>>

\* the step, taken by a call of test_regularization_l1
l1_Return == kind = "l1" /\ l1_Return_body

Next ==
    \/ l2_Enter \/ l2_Fit \/ l2_Coefs \/ l2_Train \/ l2_Test
    \/ l2_Select \/ l2_Plot \/ l2_Return
    \/ l1_Enter \/ l1_Fit \/ l1_Coefs \/ l1_Train \/ l1_Test
    \/ l1_Select \/ l1_Plot \/ l1_Return

Spec == Init /\ [][Next]_vars

\* the same calls, on data arguments that may be malformed
SpecShapes == InitShapes /\ [][Next]_vars

\* ------------------------------------------------------------------------
\* The notebook calls the sweeps one after the other (lines 303, 416), and a
\* cell can be run again. A call made after another gets a new frame: the
\* loop starts over and reg, lin_mod, min_idx, min_l, min_RMSE are unbound. The
\* lists the finished call built are kept where they are, so that only the
\* assignments at function entry make the new call's lists empty. The data,
\* the solver and the module-level lin_mod are what the notebook still holds.
\* ------------------------------------------------------------------------
\* out_l2 = test_regularization_l2(x_train, y_train, x_test, y_test, l2)
call_l2 ==
    /\ pc = "done"
    /\ kind' = "l2"
    /\ grid' \in Grids
    /\ again' = TRUE
    /\ pc' = "idle"
    /\ k' = 0
    /\ reg' = NoPenalty
    /\ lin_mod' = NoModel
    /\ min_idx' = NoIdx /\ min_l' = NoPenalty /\ min_RMSE' = NoValue
    /\ fits' = <<>> /\ shown' = 0 /\ warned' = 0
    /\ outcome' = "none" /\ error' = "none" /\ out' = <<>>
    /\ UNCHANGED <<args, solver, bad, failMode, module_lin_mod, train_RMSE, test_RMSE, coefs>>

\* out_l1 = test_regularization_l1(x_train, y_train, x_test, y_test, l1)
call_l1 ==
    /\ pc = "done"
    /\ kind' = "l1"
    /\ grid' \in Grids
    /\ again' = TRUE
    /\ pc' = "idle"
    /\ k' = 0
    /\ reg' = NoPenalty
    /\ lin_mod' = NoModel
    /\ min_idx' = NoIdx /\ min_l' = NoPenalty /\ min_RMSE' = NoValue
    /\ fits' = <<>> /\ shown' = 0 /\ warned' = 0
    /\ outcome' = "none" /\ error' = "none" /\ out' = <<>>
    /\ UNCHANGED <<args, solver, bad, failMode, module_lin_mod, train_RMSE, test_RMSE, coefs>>

NextCalls == Next \/ call_l2 \/ call_l1

\* the notebook's run: its arrays, and a solver that converges at every penalty
InitCalls == Init /\ bad = 0

\* any number of calls, one after the other
SpecCalls == InitCalls /\ [][NextCalls]_vars
\* ------------------------------------------------------------------------
\* What the stub gives for a grid, position by position
\* ------------------------------------------------------------------------
TrainErrOf(p) == mean_squared_error(y_train, predict(Fitted(p), x_train))
TestErrOf(p) == mean_squared_error(y_test, predict(Fitted(p), x_test))
TestErrs(g) == [i \in 1..Len(g) |-> TestErrOf(g[i])]
\* position i holds the least test error of s
IsMinAt(s, i) == \A j \in 1..Len(s) : Leq(s[i], s[j])

\* C1: for a non-empty grid, the returned best penalty is the grid element at
\* a position whose recorded test error is <= the recorded test error of every
\* position, and the returned best error is the value recorded at that position.
C1_BestIsMinimum ==
    (outcome = "returned" /\ grid # <<>>) =>
        \E i \in 1..Len(grid) :
            /\ Len(test_RMSE) = Len(grid)
            /\ out[1] = grid[i]
            /\ out[2] = test_RMSE[i]
            /\ IsMinAt(test_RMSE, i)

\* a sweep returned whose minimum is strictly inside a grid of differing errors
C1_Witness ==
    /\ outcome = "returned"
    /\ Len(grid) = MaxGrid
    /\ min_idx = 2
    /\ Less(test_RMSE[2], test_RMSE[1])
    /\ Less(test_RMSE[2], test_RMSE[3])

\* C2 (as stated): when two or more penalties tie for the minimum test error,
\* the returned best penalty is the smallest penalty value among the tied ones.
C2_TieSmallestPenalty ==
    outcome = "returned" =>
        \A j \in 1..Len(grid) : IsMinAt(test_RMSE, j) => out[1] <= grid[j]

\* C2 (amended): when two or more penalties tie for the minimum test error,
\* the returned best penalty is the one at the earliest grid position among
\* the tied ones.
C2_TieFirstPosition ==
    outcome = "returned" =>
        \E i \in 1..Len(grid) :
            /\ out[1] = grid[i]
            /\ IsMinAt(test_RMSE, i)
            /\ \A j \in 1..Len(grid) : IsMinAt(test_RMSE, j) => i <= j

\* two different penalties tie for the minimum and the larger one comes first
C2_Witness ==
    /\ outcome = "returned"
    /\ \E i, j \in 1..Len(grid) :
        /\ i < j /\ grid[i] > grid[j]
        /\ IsMinAt(test_RMSE, i) /\ IsMinAt(test_RMSE, j)
        /\ \A h \in 1..(i - 1) : ~IsMinAt(test_RMSE, h)

\* C3 (as stated): when the sweep finishes each of the three lists has as many
\* entries as the grid, and at every point during the sweep the three lists
\* have equal length, equal to the number of grid points processed so far.
C3_ListsEqualAtEveryPoint ==
    /\ Len(train_RMSE) = Len(test_RMSE)
    /\ Len(test_RMSE) = Len(coefs)
    /\ (outcome = "returned" => Len(test_RMSE) = Len(grid))

\* C3 (amended): when the sweep finishes each of the three lists has as many
\* entries as the grid; at the head of every loop iteration, and from the end
\* of the loop on, the three lists have equal length, equal to the number of
\* grid points processed so far; inside an iteration coefs, train_RMSE and
\* test_RMSE are appended to in that order, so that an earlier list is one
\* entry ahead of a later one.
C3_ListsEqualAtLoopHead ==
    /\ (outcome = "returned" =>
            /\ Len(train_RMSE) = Len(grid)
            /\ Len(test_RMSE) = Len(grid)
            /\ Len(coefs) = Len(grid))
    /\ (pc \in {"loop", "plot", "return"} =>
            /\ Len(train_RMSE) = k /\ Len(test_RMSE) = k /\ Len(coefs) = k)
    /\ (pc = "coefs" =>
            /\ Len(coefs) = k - 1 /\ Len(train_RMSE) = k - 1 /\ Len(test_RMSE) = k - 1)
    /\ (pc = "train" =>
            /\ Len(coefs) = k /\ Len(train_RMSE) = k - 1 /\ Len(test_RMSE) = k - 1)
    /\ (pc = "test" =>
            /\ Len(coefs) = k /\ Len(train_RMSE) = k /\ Len(test_RMSE) = k - 1)

\* a sweep over a grid of the greatest length has returned
C3_Witness ==
    /\ outcome = "returned"
    /\ Len(grid) = MaxGrid
    /\ Len(train_RMSE) = MaxGrid /\ Len(test_RMSE) = MaxGrid /\ Len(coefs) = MaxGrid

\* C4: the i-th entries of the three lists are the ones computed from the model
\* fitted with the i-th penalty of the grid (train error on the training set,
\* test error on the test set); fit is called once per grid position, in grid
\* order, none skipped or duplicated.
C4_ResultsInGridOrder ==
    /\ Len(fits) = k
    /\ \A i \in 1..Len(fits) : i <= Len(grid) /\ fits[i] = grid[i]
    /\ (outcome = "returned" =>
            /\ fits = grid
            /\ coefs = [i \in 1..Len(grid) |-> Fitted(grid[i]).coef]
            /\ train_RMSE = [i \in 1..Len(grid) |-> TrainErrOf(grid[i])]
            /\ test_RMSE = [i \in 1..Len(grid) |-> TestErrOf(grid[i])])

\* a returned sweep over a grid that is not sorted and whose models differ
C4_Witness ==
    /\ outcome = "returned"
    /\ Len(grid) = MaxGrid
    /\ grid[1] > grid[2]
    /\ coefs[1] # coefs[2]
    /\ fits = grid

\* C5 (as stated): every value recorded in train_RMSE and in test_RMSE, and so
\* the returned best error, is the square root of the mean squared error of the
\* predictions, not the mean squared error itself.
C5_RecordedIsRootOfMSE ==
    /\ \A i \in 1..Len(train_RMSE) : IsSqrtOf(train_RMSE[i], TrainErrOf(grid[i]))
    /\ \A i \in 1..Len(test_RMSE) : IsSqrtOf(test_RMSE[i], TestErrOf(grid[i]))
    /\ (outcome = "returned" => \E i \in 1..Len(grid) : IsSqrtOf(out[2], TestErrOf(grid[i])))

\* C6: with a grid of exactly one element the sweep returns that element as
\* the best penalty, whatever its test error, and that element's recorded test
\* error as the best error; only an exception of the solver prevents the return.
C6_SingleElementGrid ==
    (Len(grid) = 1 /\ pc = "done") =>
        \/ /\ outcome = "returned"
           /\ out = <<grid[1], test_RMSE[1]>>
           /\ test_RMSE[1] = TestErrOf(grid[1])
        \/ /\ outcome = "raised"
           /\ grid[1] = bad /\ failMode = "raise"

\* a one-element grid whose only penalty has the worst error the stub can give
C6_Witness ==
    /\ outcome = "returned"
    /\ Len(grid) = 1
    /\ out[1] = grid[1]
    /\ \A c \in Coefs :
        Leq(mean_squared_error(y_test, predict([coef |-> <<c>>, intercept |-> 0], x_test)),
            out[2])

\* ------------------------------------------------------------------------
\* The sweep as a function of the grid: what a call returns on grid g when no
\* fit raises (the lists it builds are TestErrs(g), by C4)
\* ------------------------------------------------------------------------
SweepResult(g) ==
    LET errs == TestErrs(g)
        idx == argmin(errs)
    IN  <<g[idx], errs[idx]>>
\* the grids that are g in another order
Reorderings(g) == {[i \in 1..Len(g) |-> g[f[i]]] : f \in Permutations(1..Len(g))}
\* no two different penalties of g tie for the minimum test error
NoTieForMin(g) ==
    LET errs == TestErrs(g)
    IN  \A i, j \in 1..Len(g) : (IsMinAt(errs, i) /\ IsMinAt(errs, j)) => g[i] = g[j]

\* C7: for any two grids that are permutations of each other and in which no
\* two penalties tie for the minimum test error, the sweep returns the same
\* best penalty and the same best test error.
C7_OrderIndependent ==
    (outcome = "returned" /\ NoTieForMin(grid)) =>
        \A g \in Reorderings(grid) : SweepResult(g) = out

\* a returned sweep whose strict minimum is at the last position of the grid,
\* so that some reordering moves it to the first
C7_Witness ==
    /\ outcome = "returned"
    /\ Len(grid) = MaxGrid
    /\ NoTieForMin(grid)
    /\ min_idx = MaxGrid
    /\ \A i \in 1..(MaxGrid - 1) : Less(test_RMSE[MaxGrid], test_RMSE[i])

\* C8 (as stated): between entry and return of the sweep no I/O is performed
\* and no plot is rendered.
C8_NoPlotBeforeReturn == shown = 0

\* C8 (amended): the loop and the selection of the minimum render no plot;
\* after the selection and before returning, the sweep calls
\* plot_regularization once, which renders exactly two figures; a call that
\* raises renders none.  The only other output is the solver's own
\* convergence warning.
C8_TwoPlotsAfterSelection ==
    /\ (pc \in {"idle", "loop", "coefs", "train", "test", "plot"} => shown = 0)
    /\ (pc = "return" => shown = 2)
    /\ (outcome = "returned" => shown = 2)
    /\ (outcome = "raised" => shown = 0)
    /\ (bad = 0 => warned = 0)

\* the sweep has plotted and not yet returned
C8_Witness == pc = "return" /\ outcome = "none" /\ shown = 2 /\ Len(grid) = MaxGrid

\* C9 (as stated): with a grid of zero elements the call fails with
\* EmptyGridError, returns no best penalty and performs no model fit.
C9_EmptyGridError ==
    (grid = <<>> /\ pc = "done") =>
        /\ outcome = "raised" /\ error = "EmptyGridError"
        /\ out = <<>> /\ fits = <<>>

\* C9 (amended): with a grid of zero elements the call fails with the
\* ValueError that np.argmin raises on the empty test-error list (there is no
\* EmptyGridError); the error is the outcome of the call, no best penalty is
\* returned, no model fit is performed and nothing is plotted.
C9_EmptyGridValueError ==
    (grid = <<>> /\ pc \notin {"idle", "loop"}) =>
        /\ pc = "done"
        /\ outcome = "raised" /\ error = "ValueError"
        /\ out = <<>> /\ fits = <<>> /\ shown = 0
        /\ min_idx = NoIdx /\ min_l = NoPenalty

\* the call on the empty grid has ended
C9_Witness == grid = <<>> /\ pc = "done" /\ outcome = "raised"

\* C10 (as stated): a grid point at which the solver did not converge is never
\* recorded as an ordinary result: either the failure ended the sweep, or NaN
\* is recorded as the error at that position.
C10_NonConvergenceNotSilent ==
    \A i \in 1..Len(test_RMSE) : grid[i] = bad => IsNaN(test_RMSE[i])

\* ------------------------------------------------------------------------
\* Malformed data arguments
\* ------------------------------------------------------------------------
TrainRowsMismatch(a) == Len(a.x_train) # Len(a.y_train)
TestRowsMismatch(a) == Len(a.x_test) # Len(a.y_test)
DimensionMismatch(a) ==
    \E r \in 1..Len(a.x_train), q \in 1..Len(a.x_test) : Len(a.x_train[r]) # Len(a.x_test[q])
ShapeMismatch(a) == TrainRowsMismatch(a) \/ TestRowsMismatch(a) \/ DimensionMismatch(a)

\* C12 (as stated): when the training rows and labels, or the test rows and
\* labels, differ in number, or train and test differ in dimensionality, the
\* sweep fails with ShapeMismatchError; the error is the outcome of the call,
\* it is never recovered from, and no best penalty is returned.
C12_ShapeMismatchError ==
    ShapeMismatch(args) =>
        /\ outcome # "returned" /\ out = <<>>
        /\ (pc = "done" => outcome = "raised" /\ error = "ShapeMismatchError")

\* C12 (amended): on such data the call always ends with an exception, which
\* nothing catches, and returns no best penalty and plots nothing; there is no
\* ShapeMismatchError and no check of the shapes in the sweep.  The exception
\* is scikit-learn's ValueError, raised at the first grid point: by fit when
\* the training rows and labels differ (nothing is recorded), by predict or
\* mean_squared_error on the test set otherwise (after the first model's
\* coefficients and training error were recorded).  Before that, the first
\* fit's own failure is raised instead if that fit does not converge, and on
\* an empty grid the exception is np.argmin's ValueError.
C12_ShapeMismatchValueError ==
    ShapeMismatch(args) =>
        /\ outcome # "returned" /\ out = <<>> /\ shown = 0
        /\ pc \notin {"plot", "return"}
        /\ min_idx = NoIdx /\ min_l = NoPenalty /\ min_RMSE = NoValue
        /\ k <= 1 /\ test_RMSE = <<>>
        /\ (TrainRowsMismatch(args) => coefs = <<>> /\ train_RMSE = <<>> /\ lin_mod = NoModel)
        /\ (pc = "done" =>
                /\ outcome = "raised"
                /\ \/ error = "ValueError"
                   \/ /\ error = "ConvergenceWarning"
                      /\ ~TrainRowsMismatch(args)
                      /\ k = 1 /\ grid[1] = bad /\ failMode = "raise")
        /\ ((pc = "done" /\ error = "ValueError" /\ grid # <<>>) =>
                /\ k = 1
                /\ (~TrainRowsMismatch(args) => Len(coefs) = 1 /\ Len(train_RMSE) = 1))

\* a call on malformed test data has ended at its first grid point, after the
\* first model was fitted and scored on the training set
C12_Witness ==
    /\ ShapeMismatch(args)
    /\ Len(grid) = MaxGrid
    /\ pc = "done" /\ outcome = "raised" /\ error = "ValueError"
    /\ k = 1 /\ Len(train_RMSE) = 1 /\ test_RMSE = <<>>

\* ------------------------------------------------------------------------
\* Calls made one after the other
\* ------------------------------------------------------------------------
\* the train errors and the coefficients the stub gives for a grid
TrainErrs(g) == [i \in 1..Len(g) |-> TrainErrOf(g[i])]
CoefsOf(g) == [i \in 1..Len(g) |-> Fitted(g[i]).coef]

\* C13: no state is shared across calls of the sweeps. No step changes the
\* data, the solver or the module-level lin_mod, and no step of a call changes
\* the grid it was called with; at the first loop test of every call, the
\* first or a later one, the three result lists are empty; and a call that
\* returns has built the lists and returns the pair that its grid, the data
\* and the solver determine, whatever calls were made before it.
C13_NoSharedState ==
    [][ /\ module_lin_mod' = module_lin_mod
        /\ args' = args
        /\ solver' = solver
        /\ (pc # "done" => grid' = grid /\ kind' = kind)
        /\ ((pc' = "loop" /\ k' = 0) =>
                train_RMSE' = <<>> /\ test_RMSE' = <<>> /\ coefs' = <<>>)
        /\ (outcome' = "returned" =>
                /\ out' = SweepResult(grid')
                /\ test_RMSE' = TestErrs(grid')
                /\ train_RMSE' = TrainErrs(grid')
                /\ coefs' = CoefsOf(grid')) ]_vars

\* a call made after other calls has returned, on a grid of full length, and
\* the module-level lin_mod is still the model fitted at module level
C13_Witness ==
    /\ again
    /\ outcome = "returned"
    /\ Len(grid) = MaxGrid
    /\ Len(test_RMSE) = MaxGrid
    /\ out = SweepResult(grid)
    /\ module_lin_mod = LinearRegression
    /\ lin_mod # module_lin_mod

\* ------------------------------------------------------------------------
\* The two sweeps side by side
\* ------------------------------------------------------------------------
\* C14: on the same data, the same grid and one common stub solver, the l1
\* sweep and the l2 sweep are the same procedure: every step a call of
\* test_regularization_l2 takes is the step test_regularization_l1's code
\* takes from the same lists and locals, and the other way round. Both start
\* from the same state, so they hold identical train-error, test-error and
\* coefficient lists after every step and return the same pair.
C14_SameProcedure ==
    [][ /\ (l2_Enter => l1_Enter_body) /\ (l1_Enter => l2_Enter_body)
        /\ (l2_Fit => l1_Fit_body) /\ (l1_Fit => l2_Fit_body)
        /\ (l2_Coefs => l1_Coefs_body) /\ (l1_Coefs => l2_Coefs_body)
        /\ (l2_Train => l1_Train_body) /\ (l1_Train => l2_Train_body)
        /\ (l2_Test => l1_Test_body) /\ (l1_Test => l2_Test_body)
        /\ (l2_Select => l1_Select_body) /\ (l1_Select => l2_Select_body)
        /\ (l2_Plot => l1_Plot_body) /\ (l1_Plot => l2_Plot_body)
        /\ (l2_Return => l1_Return_body) /\ (l1_Return => l2_Return_body) ]_vars

\* a call of test_regularization_l1 has returned what the stub determines on a
\* grid of full length whose penalties give different models, with train and
\* test errors that differ so that mixing them up would show
C14_Witness ==
    /\ kind = "l1"
    /\ outcome = "returned"
    /\ Len(grid) = MaxGrid
    /\ out = SweepResult(grid)
    /\ coefs = CoefsOf(grid)
    /\ \E i, j \in 1..MaxGrid : coefs[i] # coefs[j]
    /\ \E i \in 1..MaxGrid : ~Same(train_RMSE[i], test_RMSE[i])

====
